---- MODULE Spec2Model ----
(***************************************************************************)
(* Density-fitting J/K builder of pyscf (scf/dfhf.py): get_jk_, its inner  *)
(* closure fjk and the block generator prange, as a state machine.         *)
(*                                                                         *)
(* Numbers.  Density matrices and eigenvalues are integers in units of     *)
(* OCCDROP/4 (2.5e-13), so that values strictly inside, exactly on and     *)
(* outside the drop threshold are all representable and every retained     *)
(* eigenvalue used here is a perfect square (sqrt is then exact).  Factor  *)
(* entries are small integers.  All arithmetic is exact.                   *)
(*                                                                         *)
(* mf.max_memory is carried as the value of mf.max_memory*1e6 (bytes).     *)
(***************************************************************************)
EXTENDS Integers, Sequences, FiniteSets, TLC

\* ---------------------------------------------------------------- bounds
\* number of orbital basis functions of the molecule (mol.nao_nr())
NAO == 2
\* largest auxiliary dimension (auxmol.nao_nr()) drawn
MaxAux == 3
\* largest block size drawn (the program runs with BLOCKDIM)
MaxStep == 3
\* longest batch of density matrices passed to one call
MaxBatch == 2
\* cap on completed factor constructions per context
MaxBuilds == 2

\* ------------------------------------------------------- program constants
\* OCCDROP = 1e-12, in units of 2.5e-13
OCCDROP == 4
\* BLOCKDIM = 160
BLOCKDIM == 160

\* ------------------------------------------------------------ linear algebra
RECURSIVE SumSeq(_)
SumSeq(s) == IF Len(s) = 0 THEN 0 ELSE Head(s) + SumSeq(Tail(s))

\* numpy.dot of two vectors of equal length
Dot(u, v) == SumSeq([k \in 1..Len(u) |-> u[k] * v[k]])

\* numpy.zeros_like(dm) for an n x n matrix
zeros_like_ones(n) == [i \in 1..n |-> [j \in 1..n |-> 1]]
zeros_like(n) == [i \in 1..n |-> [j \in 1..n |-> 0]]

\* acc += x and acc -= x on n x n matrices (vj += ..., vk += ..., vk -= ...)
iadd_overwrite(acc, x, n) == x
iadd(acc, x, n) == [i \in 1..n |-> [j \in 1..n |-> acc[i][j] + x[i][j]]]
isub(acc, x, n) == [i \in 1..n |-> [j \in 1..n |-> acc[i][j] - x[i][j]]]

\* number of entries of a packed lower triangle
NPair(n) == (n * (n + 1)) \div 2
\* position (1-based) of entry (i, j), i >= j, in the packed triangle
TrilIdx(i, j) == ((i - 1) * i) \div 2 + j

\* pyscf.lib.pack_tril(A): the lower triangle of A, row by row
pack_tril(A, n) ==
    [k \in 1..NPair(n) |->
        LET ij == CHOOSE ij \in (1..n) \X (1..n) :
                      ij[2] <= ij[1] /\ TrilIdx(ij[1], ij[2]) = k
        IN A[ij[1]][ij[2]]]

\* pyscf.lib.unpack_tril(v, 1): the symmetric matrix with lower triangle v
unpack_tril(v, n) ==
    [i \in 1..n |-> [j \in 1..n |->
        IF j <= i THEN v[TrilIdx(i, j)] ELSE v[TrilIdx(j, i)]]]

\* scalar sqrt on the perfect squares the model uses
Sqrt(x) == CHOOSE r \in 0..x : r * r = x

\* ---------------------------------------------------------------- inputs
\* n x n diagonal matrix with a in the first diagonal entry, b in the others
Diag(n, a, b) ==
    [i \in 1..n |-> [j \in 1..n |->
        IF i # j THEN 0 ELSE IF i = 1 THEN a ELSE b]]

\* a non-symmetric matrix (general Hartree-Fock density)
NonSym(n) == [i \in 1..n |-> [j \in 1..n |-> IF j > i THEN 1 ELSE IF j = i THEN i - 1 ELSE 0]]

Dens(n, a) == [n |-> n, a |-> a]

\* symmetric densities; the overlap is the identity, so the generalized
\* eigenvalues are the diagonal entries
SymPairs == { <<0, 0>>, <<9, -9>>, <<4, -4>>, <<9, 4>>, <<-9, -4>> }
SymDens == { Dens(NAO, Diag(NAO, p[1], p[2])) : p \in SymPairs }
GenDens == { Dens(NAO, NonSym(NAO)) }
\* densities whose dimension disagrees with nao
BadDens == { Dens(NAO + 1, Diag(NAO + 1, 9, -9)), Dens(NAO - 1, Diag(NAO - 1, 9, 9)) }

IsZero(d) == \A i, j \in 1..d.n : d.a[i][j] = 0

\* mf.get_ovlp() is the identity of dimension NAO: nao = s.shape[0] = NAO

\* ------------------------------------------------------------ factor store
\* df.incore.cholesky_eri / df.outcore.cholesky_eri: the factor, one packed
\* lower triangle per auxiliary index
cholesky_eri(nao, naux) ==
    [p \in 1..naux |-> [k \in 1..NPair(nao) |-> ((p * k + k) % 3) - 1]]

\* in-core test of get_jk_ (max_mem is mf.max_memory*1e6)
InCoreLE(nao, naux, max_mem) == ((nao * (nao + 1)) \div 2) * naux * 8 <= max_mem
InCore(nao, naux, max_mem) == ((nao * (nao + 1)) \div 2) * naux * 8 < max_mem

\* memory budgets drawn: zero, the size of a MaxAux-1 factor, one byte more
Budgets == { 0, NPair(NAO) * (MaxAux - 1) * 8, NPair(NAO) * (MaxAux - 1) * 8 + 1 }

\* prange(start, end, step) as the sequence of pairs it yields
RECURSIVE prangeShort(_, _, _)
prangeShort(start, end, step) ==
    IF start + step > end THEN << >>
    ELSE << <<start, start + step>> >> \o prangeShort(start + step, end, step)
RECURSIVE prange(_, _, _)
prange(start, end, step) ==
    IF start >= end THEN << >>
    ELSE << <<start, IF start + step < end THEN start + step ELSE end>> >>
         \o prange(start + step, end, step)


\* df.load_buf(cderi, b0, count): rows b0 .. b0+count-1 of the factor
load_buf(data, b0, count) == [p \in 1..count |-> data[b0 + p]]

\* ------------------------------------------------------- density preprocessor
\* dmtril of fjk: pack_tril(dm + dm.T) with the first nao diagonal entries
\* halved (the loop over range(nao))
dmtril_of(d, nao) ==
    pack_tril([i \in 1..d.n |-> [j \in 1..d.n |->
                  IF i = j /\ i <= nao THEN (d.a[i][j] + d.a[j][i]) \div 2
                  ELSE d.a[i][j] + d.a[j][i]]], d.n)

\* scipy.linalg.eigh(dm, s, type=2) for a diagonal dm and the identity
\* metric: eigenvalues ascending, eigenvectors the matching unit vectors.
\* EighPerm[j] is the row of the j-th smallest diagonal entry.
EighPerm(d) ==
    LET rank(i) == 1 + Cardinality({m \in 1..d.n :
                        d.a[m][m] < d.a[i][i] \/ (d.a[m][m] = d.a[i][i] /\ m < i)})
    IN [j \in 1..d.n |-> CHOOSE i \in 1..d.n : rank(i) = j]
eigh_e(d) == [j \in 1..d.n |-> d.a[EighPerm(d)[j]][EighPerm(d)[j]]]
\* eigenvectors as a sequence of columns
eigh_c(d) == [j \in 1..d.n |-> [l \in 1..d.n |-> IF l = EighPerm(d)[j] THEN 1 ELSE 0]]

\* pos = e > OCCDROP ; neg = e < -OCCDROP
pos_maskGE(e) == [j \in 1..Len(e) |-> e[j] >= OCCDROP]
pos_mask(e) == [j \in 1..Len(e) |-> e[j] > OCCDROP]
neg_mask(e) == [j \in 1..Len(e) |-> e[j] < -OCCDROP]

\* the indices selected by a boolean mask, ascending
RECURSIVE Selected(_, _)
Selected(mask, j) ==
    IF j > Len(mask) THEN << >>
    ELSE (IF mask[j] THEN << j >> ELSE << >>) \o Selected(mask, j + 1)
\* sum(mask)
CountTrue(mask) == Len(Selected(mask, 1))

\* cpos = einsum('ij,j->ij', c[:,pos], sqrt(e[pos])), as a sequence of columns
cpos_of(e, c, mask) ==
    LET sel == Selected(mask, 1)
    IN [k \in 1..Len(sel) |-> [l \in 1..Len(c[sel[k]]) |-> c[sel[k]][l] * Sqrt(e[sel[k]])]]
\* cneg = einsum('ij,j->ij', c[:,neg], sqrt(-e[neg]))
cneg_of(e, c, mask) ==
    LET sel == Selected(mask, 1)
    IN [k \in 1..Len(sel) |-> [l \in 1..Len(c[sel[k]]) |-> c[sel[k]][l] * Sqrt(-e[sel[k]])]]

\* ---------------------------------------------------- block contraction engine
\* buf = reduce(numpy.dot, (eri1, dmtril, eri1))
jbuf(eri1, dmtril) ==
    LET t == [p \in 1..Len(eri1) |-> Dot(eri1[p], dmtril)]
    IN [k \in 1..Len(dmtril) |-> SumSeq([p \in 1..Len(eri1) |-> t[p] * eri1[p][k]])]

\* AO2MOnr_e2_drv with RIhalfmmm_nr_s2_bra: rows (p, k) of the half-transformed
\* block, row[i] = sum_l cols[k][l] * eri1[p](l, i)
halfmmm(eri1, cols, nao) ==
    LET nc == Len(cols)
    IN [r \in 1..(Len(eri1) * nc) |->
          LET p == ((r - 1) \div nc) + 1
              k == ((r - 1) % nc) + 1
              U == unpack_tril(eri1[p], nao)
          IN [i \in 1..nao |-> SumSeq([l \in 1..nao |-> cols[k][l] * U[l][i]])]]

\* AO2MOnr_e2_drv with RImmm_nr_s2_copy: rows (p, k) of the unpacked block
mmm_copy(eri1, nao) ==
    [r \in 1..(Len(eri1) * nao) |->
          LET p == ((r - 1) \div nao) + 1
              k == ((r - 1) % nao) + 1
          IN unpack_tril(eri1[p], nao)[k]]

\* numpy.dot(A.T, B) for two row lists of equal length
dotT(A, B, nao) ==
    [i \in 1..nao |-> [j \in 1..nao |-> SumSeq([r \in 1..Len(A) |-> A[r][i] * B[r][j]])]]

\* the columns of dm (numpy.asfortranarray(dm) as the transform's coefficients)
ColsOf(d) == [k \in 1..d.n |-> [l \in 1..d.n |-> d.a[l][k]]]


\* ------------------------------------------------------------------- state
VARIABLES
    mol_naoaux,   \* auxmol.nao_nr() of the molecule's auxiliary basis
    blockdim,     \* block size handed to prange
    max_memory,   \* mf.max_memory * 1e6
    cderi,        \* mf._cderi: [kind, data], kind absent | None | array | file
    naoaux,       \* mf._naoaux (-1 while the attribute is not set)
    cderi_file,   \* mf._cderi_file and what the temporary file holds
    pc,           \* idle | fjk | loop | fjkret | ret | done | raised
    dms,          \* the density matrices of the running call
    is_batch,     \* FALSE when dms is one 2-d array
    hermi,        \* hermi of the running call
    k,            \* position in dms of the matrix fjk works on
    dmtril, vj, vk, e, pos, neg, cpos, cneg,   \* locals of fjk
    blocks, bi,   \* the pairs prange yields in the running loop, and the next one
    vjk,          \* the (vj, vk) pairs fjk has returned in this call
    result,       \* what the call returned or raised
    nbuilt,       \* completed constructions of the factor on this context
    skipped,      \* the running call found mf._cderi set and built nothing
    loads,        \* blocks load_buf has read in the running fjk
    jacc,         \* blocks whose Coulomb contribution was added to vj
    record,       \* whether single-matrix results are remembered
    memo          \* the last single-matrix call that returned

mfvars == <<mol_naoaux, blockdim, max_memory, cderi, naoaux, cderi_file, nbuilt>>
callvars == <<dms, is_batch, hermi, skipped>>
fjkvars == <<dmtril, vj, vk, e, pos, neg, cpos, cneg, blocks, bi, loads, jacc>>
vars == <<mfvars, callvars, fjkvars, pc, k, vjk, result, record, memo>>

NoHandle(kind) == [kind |-> kind, data |-> << >>]
NoFile == [open |-> FALSE, written |-> FALSE, data |-> << >>]
NoResult == [status |-> "none", err |-> "", vj |-> << >>, vk |-> << >>]
NoMemo == [valid |-> FALSE, dm |-> Dens(0, << >>), hermi |-> 0, vj |-> << >>, vk |-> << >>]

\* the locals of fjk before fjk runs
FjkIdle ==
    /\ dmtril = << >> /\ vj = << >> /\ vk = << >> /\ e = << >>
    /\ pos = << >> /\ neg = << >> /\ cpos = << >> /\ cneg = << >>
    /\ blocks = << >> /\ bi = 0 /\ loads = << >> /\ jacc = << >>
FjkReset ==
    /\ dmtril' = << >> /\ vj' = << >> /\ vk' = << >> /\ e' = << >>
    /\ pos' = << >> /\ neg' = << >> /\ cpos' = << >> /\ cneg' = << >>
    /\ blocks' = << >> /\ bi' = 0 /\ loads' = << >> /\ jacc' = << >>

\* density_fit(mf): the context HF() with _cderi = None; a context handed to
\* get_jk_ directly may lack the attribute
InitCommon ==
    /\ cderi \in { NoHandle("None"), NoHandle("absent") }
    /\ naoaux = -1
    /\ cderi_file = NoFile
    /\ pc = "idle"
    /\ dms = << >> /\ is_batch = FALSE /\ hermi = 0 /\ k = 0
    /\ FjkIdle
    /\ vjk = << >> /\ result = NoResult
    /\ nbuilt = 0 /\ skipped = FALSE
    /\ memo = NoMemo

Init ==
    /\ mol_naoaux \in 0..MaxAux
    /\ blockdim \in (1..MaxStep) \cup {BLOCKDIM}
    /\ max_memory \in Budgets
    /\ record = FALSE
    /\ InitCommon

\* one context, block size BLOCKDIM scaled to split the auxiliary range
InitBatch ==
    /\ mol_naoaux = MaxAux
    /\ blockdim = MaxStep - 1
    /\ max_memory \in Budgets
    /\ record = TRUE
    /\ InitCommon

\* the densities a call with this hermi is given
Candidates(h) == IF h = 1 THEN SymDens \cup BadDens ELSE SymDens \cup GenDens \cup BadDens
\* batches are drawn over three of them: a good matrix, a second good matrix
\* (all eigenvalues dropped, or non-symmetric), and one of the wrong dimension
BatchCandidates(h) ==
    { Dens(NAO, Diag(NAO, 9, -9)),
      IF h = 1 THEN Dens(NAO, Diag(NAO, 4, -4)) ELSE Dens(NAO, NonSym(NAO)),
      Dens(NAO + 1, Diag(NAO + 1, 9, -9)) }
Batches(h) == UNION { [1..m -> BatchCandidates(h)] : m \in 0..MaxBatch }

\* the test of line 57 (always-true variant: the cache is ignored)
NeedsBuildAlways(h) == TRUE
NeedsBuild(h) == h.kind = "absent" \/ h.kind = "None"

Raise(err) ==
    /\ pc' = "raised"
    /\ result' = [status |-> "error", err |-> err, vj |-> << >>, vk |-> << >>]

\* get_jk_, lines 53-74 and the dispatch of line 154: entry of a call
get_jk_enter(ds, batch, h) ==
    /\ pc = "idle"
    /\ dms' = ds /\ is_batch' = batch /\ hermi' = h
    /\ UNCHANGED <<mol_naoaux, blockdim, max_memory, fjkvars, vjk, record, memo>>
    /\ IF NeedsBuild(cderi)
       THEN /\ nbuilt < MaxBuilds
            /\ skipped' = FALSE
            /\ naoaux' = mol_naoaux
            /\ \E built \in BOOLEAN :
                 IF InCore(NAO, mol_naoaux, max_memory)
                 THEN /\ cderi_file' = cderi_file
                      /\ IF built
                         THEN /\ cderi' = [kind |-> "array", data |-> cholesky_eri(NAO, mol_naoaux)]
                              /\ nbuilt' = nbuilt + 1
                              /\ pc' = IF Len(ds) = 0 THEN "ret" ELSE "fjk"
                              /\ k' = 1
                              /\ result' = NoResult
                         ELSE /\ UNCHANGED <<cderi, nbuilt, k>>
                              /\ Raise("BuildError")
                 ELSE /\ cderi' = NoHandle("file")
                      /\ IF built
                         THEN /\ cderi_file' = [open |-> TRUE, written |-> TRUE,
                                                data |-> cholesky_eri(NAO, mol_naoaux)]
                              /\ nbuilt' = nbuilt + 1
                              /\ pc' = IF Len(ds) = 0 THEN "ret" ELSE "fjk"
                              /\ k' = 1
                              /\ result' = NoResult
                         ELSE /\ cderi_file' = [open |-> TRUE, written |-> FALSE, data |-> << >>]
                              /\ UNCHANGED <<nbuilt, k>>
                              /\ Raise("BuildError")
       ELSE /\ skipped' = TRUE
            /\ UNCHANGED <<cderi, naoaux, cderi_file, nbuilt>>
            /\ pc' = IF Len(ds) = 0 THEN "ret" ELSE "fjk"
            /\ k' = 1
            /\ result' = NoResult

Call ==
    \E h \in {0, 1} :
        \/ \E d \in Candidates(h) : get_jk_enter(<< d >>, FALSE, h)
        \/ \E ds \in Batches(h) : get_jk_enter(ds, TRUE, h)


\* the factor mf._cderi refers to: the array itself, or the temporary file
FactorData == IF cderi.kind = "array" THEN cderi.data ELSE cderi_file.data
\* load_buf can read the handle
Readable == cderi.kind = "array" \/ (cderi.kind = "file" /\ cderi_file.written)

\* fjk, lines 79-106 and 130-134: everything before the block loop
fjk_begin ==
    /\ pc = "fjk"
    /\ UNCHANGED <<mfvars, callvars, k, vjk, record, memo, loads, jacc>>
    /\ LET d == dms[k] IN
       IF d.n < NAO
       THEN \* line 81 indexes past the end of dmtril
            /\ Raise("IndexError")
            /\ UNCHANGED <<dmtril, vj, vk, e, pos, neg, cpos, cneg, blocks, bi>>
       ELSE /\ dmtril' = dmtril_of(d, NAO)
            /\ vj' = zeros_like(d.n)
            /\ vk' = zeros_like(d.n)
            /\ IF hermi = 1
               THEN IF d.n # NAO
                    THEN \* eigh rejects a and b of different dimensions
                         /\ Raise("ValueError")
                         /\ UNCHANGED <<e, pos, neg, cpos, cneg, blocks, bi>>
                    ELSE /\ e' = eigh_e(d)
                         /\ pos' = pos_mask(eigh_e(d))
                         /\ neg' = neg_mask(eigh_e(d))
                         /\ result' = result
                         /\ IF CountTrue(pos_mask(eigh_e(d))) + CountTrue(neg_mask(eigh_e(d))) > 0
                            THEN /\ cpos' = cpos_of(eigh_e(d), eigh_c(d), pos_mask(eigh_e(d)))
                                 /\ cneg' = cneg_of(eigh_e(d), eigh_c(d), neg_mask(eigh_e(d)))
                                 /\ blocks' = prange(0, naoaux, blockdim)
                                 /\ bi' = 1
                                 /\ pc' = IF Len(prange(0, naoaux, blockdim)) = 0
                                          THEN "fjkret" ELSE "loop"
                            ELSE /\ UNCHANGED <<cpos, cneg, blocks, bi>>
                                 /\ pc' = "fjkret"
               ELSE /\ UNCHANGED <<e, pos, neg, cpos, cneg>>
                    /\ result' = result
                    /\ blocks' = prange(0, naoaux, blockdim)
                    /\ bi' = 1
                    /\ pc' = IF Len(prange(0, naoaux, blockdim)) = 0 THEN "fjkret" ELSE "loop"

\* K contribution of one block on the symmetric path, lines 111-126
vk_sym(acc, eri1, cp, cn, nao) ==
    LET plus == IF Len(cp) > 0
                THEN iadd(acc, dotT(halfmmm(eri1, cp, nao), halfmmm(eri1, cp, nao), nao), nao)
                ELSE acc
    IN IF Len(cn) > 0
       THEN isub(plus, dotT(halfmmm(eri1, cn, nao), halfmmm(eri1, cn, nao), nao), nao)
       ELSE plus

\* K contribution of one block on the general path, lines 139-151
vk_gen(acc, eri1, d, nao) ==
    iadd(acc, dotT(halfmmm(eri1, ColsOf(d), nao), mmm_copy(eri1, nao), nao), nao)

\* fjk, lines 107-126 and 135-151: one iteration of the block loop
fjk_block ==
    /\ pc = "loop"
    /\ UNCHANGED <<mfvars, callvars, k, vjk, record, memo, dmtril, e, pos, neg, cpos, cneg, blocks>>
    /\ LET b0 == blocks[bi][1]
           b1 == blocks[bi][2]
           eri1 == load_buf(FactorData, b0, b1 - b0)
       IN
       IF ~Readable
       THEN \* load_buf finds no factor behind the handle
            /\ Raise("IOError")
            /\ UNCHANGED <<vj, vk, bi, loads, jacc>>
       ELSE /\ loads' = Append(loads, blocks[bi])
            /\ IF Len(dmtril) # NPair(NAO)
               THEN \* numpy.dot(eri1, dmtril): shapes not aligned
                    /\ Raise("ValueError")
                    /\ UNCHANGED <<vj, vk, bi, jacc>>
               ELSE /\ vj' = iadd(vj, unpack_tril(jbuf(eri1, dmtril), NAO), NAO)
                    /\ jacc' = Append(jacc, blocks[bi])
                    /\ vk' = IF hermi = 1
                             THEN vk_sym(vk, eri1, cpos, cneg, NAO)
                             ELSE vk_gen(vk, eri1, dms[k], NAO)
                    /\ bi' = bi + 1
                    /\ pc' = IF bi = Len(blocks) THEN "fjkret" ELSE "loop"
                    /\ result' = result

\* fjk, line 152: return vj, vk to the caller's list
fjk_return ==
    /\ pc = "fjkret"
    /\ vjk' = Append(vjk, << vj, vk >>)
    /\ FjkReset
    /\ IF k = Len(dms)
       THEN pc' = "ret" /\ k' = k
       ELSE pc' = "fjk" /\ k' = k + 1
    /\ UNCHANGED <<mfvars, callvars, result, record, memo>>

\* vj = numpy.array([x[0] for x in vjk]) ; vk = numpy.array([x[1] for x in vjk])
stack_rev(l, f) == [i \in 1..Len(l) |-> l[Len(l) + 1 - i][f]]
stack(l, f) == [i \in 1..Len(l) |-> l[i][f]]

\* get_jk_, lines 154-161: the value returned
get_jk_return ==
    /\ pc = "ret"
    /\ pc' = "done"
    /\ result' = IF is_batch
                 THEN [status |-> "ok", err |-> "", vj |-> stack(vjk, 1), vk |-> stack(vjk, 2)]
                 ELSE [status |-> "ok", err |-> "", vj |-> vjk[1][1], vk |-> vjk[1][2]]
    /\ memo' = IF record /\ ~is_batch
               THEN [valid |-> TRUE, dm |-> dms[1], hermi |-> hermi,
                     vj |-> vjk[1][1], vk |-> vjk[1][2]]
               ELSE memo
    /\ UNCHANGED <<mfvars, callvars, fjkvars, k, vjk, record>>

\* the caller takes the result (or the exception); the call's frame is gone
caller_takes ==
    /\ pc \in {"done", "raised"}
    /\ pc' = "idle"
    /\ dms' = << >> /\ is_batch' = FALSE /\ hermi' = 0 /\ skipped' = FALSE
    /\ k' = 0 /\ vjk' = << >> /\ result' = NoResult
    /\ FjkReset
    /\ UNCHANGED <<mfvars, record, memo>>

Next ==
    \/ Call
    \/ fjk_begin
    \/ fjk_block
    \/ fjk_return
    \/ get_jk_return
    \/ caller_takes

Spec == Init /\ [][Next]_vars
SpecBatch == InitBatch /\ [][Next]_vars


\* ------------------------------------------------------------------ claims
\* the matrix fjk is working on has the dimension of the factor
ShapeOk == dms[k].n = NAO

\* C1: the pairs prange(0, naoaux, step) yields are contiguous, do not overlap and
\* cover [0, naoaux) exactly once: the first b0 is 0, each b1 is the next b0, the
\* last b1 is naoaux, every block has 1 <= b1-b0 <= step, only the last block may
\* be shorter than step, and naoaux = 0 yields no block.
C1_PrangePartition ==
    (pc \in {"loop", "fjkret"} /\ bi >= 1) =>
        LET n == Len(blocks) IN
        /\ (naoaux = 0) <=> (n = 0)
        /\ n > 0 => blocks[1][1] = 0 /\ blocks[n][2] = naoaux
        /\ \A i \in 1..n :
              /\ 1 <= blocks[i][2] - blocks[i][1]
              /\ blocks[i][2] - blocks[i][1] <= blockdim
              /\ i < n => /\ blocks[i][2] = blocks[i + 1][1]
                          /\ blocks[i][2] - blocks[i][1] = blockdim
C1_Witness ==
    /\ pc = "fjkret" /\ bi >= 1 /\ Len(blocks) >= 2
    /\ blocks[Len(blocks)][2] - blocks[Len(blocks)][1] < blockdim

\* C2: in a batch, the J and K returned at position i are the J and K a call with
\* that matrix alone returned on the same context (same hermi), whatever the
\* position and whatever the other matrices of the batch.
C2_BatchAsAlone ==
    (pc = "done" /\ is_batch /\ memo.valid /\ memo.hermi = hermi) =>
        /\ Len(result.vj) = Len(dms) /\ Len(result.vk) = Len(dms)
        /\ \A i \in 1..Len(dms) :
              dms[i] = memo.dm => result.vj[i] = memo.vj /\ result.vk[i] = memo.vk
C2_Witness ==
    /\ pc = "done" /\ is_batch /\ memo.valid /\ memo.hermi = hermi
    /\ Len(dms) = 2 /\ dms[2] = memo.dm /\ dms[1] # memo.dm
    /\ result.vk[2] # zeros_like(NAO) /\ result.vk[1] # result.vk[2]
    /\ result.vj[2] # zeros_like(NAO) /\ result.vj[1] # result.vj[2]

\* C3: the factor is constructed at most once on a context; once mf._cderi is
\* set, no step of any call (entry, contraction, return) changes the handle,
\* naoaux or the stored factor, and nothing is built again.
C3_BuiltOnce ==
    [][ /\ nbuilt' <= 1
        /\ cderi.kind \in {"array", "file"} =>
              /\ cderi' = cderi /\ naoaux' = naoaux
              /\ cderi_file' = cderi_file /\ nbuilt' = nbuilt ]_vars
C3_Witness ==
    /\ pc = "done" /\ skipped /\ nbuilt = 1 /\ is_batch /\ Len(dms) = 2
    /\ naoaux = mol_naoaux /\ naoaux > 0

\* C4: a constructed factor is held in memory iff nao*(nao+1)/2*naoaux*8 is
\* strictly below the budget; otherwise (equality and a zero budget included) the
\* handle names the temporary store, which exists.
C4_InCoreIffBelowBudget ==
    cderi.kind \in {"array", "file"} =>
        /\ (cderi.kind = "array") <=> (NAO * (NAO + 1) * naoaux * 4 < max_memory)
        /\ cderi.kind = "file" => cderi_file.open
        /\ cderi.kind = "array" => ~cderi_file.open
C4_Witness ==
    /\ cderi.kind = "file" /\ cderi_file.written /\ naoaux > 0
    /\ NAO * (NAO + 1) * naoaux * 4 = max_memory

\* C5: on the symmetric path every eigenvalue is in exactly one class: positive
\* iff e > OCCDROP, negative iff e < -OCCDROP, dropped otherwise; an eigenvalue of
\* magnitude exactly OCCDROP is neither positive nor negative.
C5_EigenClasses ==
    (hermi = 1 /\ pc \in {"loop", "fjkret"}) =>
        /\ Len(e) = NAO /\ Len(pos) = NAO /\ Len(neg) = NAO
        /\ \A j \in 1..NAO :
              /\ pos[j] <=> e[j] >= OCCDROP + 1
              /\ neg[j] <=> e[j] + OCCDROP + 1 <= 0
              /\ ~(pos[j] /\ neg[j])
              /\ (e[j] = OCCDROP \/ e[j] = -OCCDROP) => (~pos[j] /\ ~neg[j])
        /\ bi >= 1 => /\ Len(cpos) = Cardinality({j \in 1..NAO : e[j] > OCCDROP})
                      /\ Len(cneg) = Cardinality({j \in 1..NAO : e[j] < -OCCDROP})
C5_Witness ==
    /\ hermi = 1 /\ pc = "loop"
    /\ \E j \in 1..NAO : e[j] = OCCDROP /\ ~pos[j] /\ ~neg[j]
    /\ \E j \in 1..NAO : pos[j]

\* C6: a density matrix whose dimension disagrees with nao is rejected before any
\* block work: when the error is raised no factor block has been loaded, nothing
\* has been accumulated, and no matrix of the batch has been contracted.
C6_RejectedBeforeBlockWork ==
    (pc = "raised" /\ result.err \in {"IndexError", "ValueError"}) =>
        /\ loads = << >> /\ jacc = << >>
        /\ vjk = << >>

\* J of the commented reference of fjk: cderi . dm . cderi over all auxiliary
\* indices at once
vj_unblocked(d, data, nao) ==
    LET U(p) == unpack_tril(data[p], nao)
        t == [p \in 1..Len(data) |->
                SumSeq([r \in 1..(nao * nao) |->
                    U(p)[((r - 1) \div nao) + 1][((r - 1) % nao) + 1]
                    * d.a[((r - 1) \div nao) + 1][((r - 1) % nao) + 1]])]
    IN [i \in 1..nao |-> [j \in 1..nao |->
            SumSeq([p \in 1..Len(data) |-> t[p] * U(p)[i][j]])]]

\* K from one pass over the whole auxiliary range
vk_unblocked(d, data, nao) ==
    IF Len(data) = 0 THEN zeros_like(nao)
    ELSE IF hermi = 1 THEN vk_sym(zeros_like(nao), data, cpos, cneg, nao)
    ELSE vk_gen(zeros_like(nao), data, d, nao)

\* C7: for a fixed factor and density matrix, J and K do not depend on the block
\* size: what the block loop has accumulated when it ends equals the unblocked
\* sum over all auxiliary indices, on both paths (and a loop that is not
\* entered leaves zero for every block size).
C7_BlockSizeInvariant ==
    (pc = "fjkret" /\ ShapeOk) =>
        IF bi = 0
        THEN vj = zeros_like(NAO) /\ vk = zeros_like(NAO)
        ELSE /\ vj = vj_unblocked(dms[k], FactorData, NAO)
             /\ vk = vk_unblocked(dms[k], FactorData, NAO)
C7_Witness ==
    /\ pc = "fjkret" /\ ShapeOk /\ hermi = 1 /\ Len(jacc) >= 2
    /\ blocks[Len(blocks)][2] - blocks[Len(blocks)][1] < blockdim
    /\ Len(cpos) > 0 /\ Len(cneg) > 0
    /\ vk # zeros_like(NAO) /\ vj # zeros_like(NAO)

\* C8: a zero density matrix gives a zero J and a zero K of its shape, on both
\* paths, for every naoaux and block size.
C8_ZeroDensity ==
    /\ (pc = "fjkret" /\ ShapeOk /\ IsZero(dms[k])) =>
          vj = Diag(NAO, 0, 0) /\ vk = Diag(NAO, 0, 0)
    /\ (pc = "done" /\ ~is_batch /\ dms[1].n = NAO /\ IsZero(dms[1])) =>
          result.vj = Diag(NAO, 0, 0) /\ result.vk = Diag(NAO, 0, 0)
C8_Witness ==
    /\ pc = "fjkret" /\ ShapeOk /\ IsZero(dms[k]) /\ hermi = 0 /\ Len(jacc) >= 2
    /\ vj = Diag(NAO, 0, 0) /\ vk = Diag(NAO, 0, 0)

\* C9: on the symmetric path, for every (non-zero) density matrix, every block
\* of the auxiliary range has been loaded and added to J exactly once when fjk
\* returns, whatever the number of retained eigenvalues.
C9_JAccumulatedEveryBlock ==
    (pc = "fjkret" /\ hermi = 1 /\ ShapeOk /\ ~IsZero(dms[k])) =>
        /\ loads = prange(0, naoaux, blockdim)
        /\ jacc = prange(0, naoaux, blockdim)

\* C10: a call that finds mf._cderi set and skips construction works on a factor
\* whose construction completed; a construction that raised leaves the context
\* without a handle.
C10_HandleMeansBuilt ==
    /\ (pc # "idle" /\ skipped) => (cderi.kind = "array" \/ cderi_file.written)
    /\ (pc = "raised" /\ result.err = "BuildError") => cderi.kind \in {"absent", "None"}

====
